---------------------------- MODULE Spec2Model ----------------------------
(***************************************************************************)
(* terrier::util::TimeConvertor (src/include/util/time_util.h).            *)
(*                                                                         *)
(* The class is a set of static, stateless conversions between calendar    *)
(* values, text, the 4-byte Julian day (date_t) and the 8-byte Julian      *)
(* microsecond count (timestamp_t).  The state machine below is a caller   *)
(* that invokes the conversions one after another, feeding a result into   *)
(* the next call or starting again from a fresh input; `hist` is the       *)
(* sequence of calls made since the last fresh input.                      *)
(*                                                                         *)
(* TLC integers are 32-bit signed.  uint32_t and uint64_t values are       *)
(* therefore kept as "wide" naturals: little-endian sequences of limbs in  *)
(* radix Base without leading zero limbs, reduced modulo 2^32 or 2^64      *)
(* wherever the C++ type is.  Text is a sequence of one-character strings. *)
(***************************************************************************)
EXTENDS Integers, Sequences, FiniteSets, TLC

(***************************************************************************)
(* Wide (multi-limb) natural numbers: the arithmetic of uint32_t/uint64_t. *)
(***************************************************************************)
Base == 100 * 100

\* F applied to the value of v: v is evaluated once, as a C++ local is
Let(v, F(_)) == CHOOSE r \in {F(x) : x \in {v}} : TRUE

RECURSIVE W(_)
\* the wide natural of a non-negative machine integer
W(n) == IF n = 0 THEN <<>> ELSE <<n % Base>> \o W(n \div Base)

RECURSIVE WInt(_)
\* the machine integer of a wide natural that fits one
WInt(a) == IF a = <<>> THEN 0 ELSE a[1] + Base * WInt(Tail(a))

RECURSIVE WNorm(_)
\* strip leading (most significant) zero limbs
WNorm(a) ==
    IF a = <<>> THEN <<>>
    ELSE IF a[Len(a)] = 0 THEN WNorm(SubSeq(a, 1, Len(a) - 1))
    ELSE a

WLimb(a, i) == IF i <= Len(a) THEN a[i] ELSE 0

RECURSIVE WAddC(_, _, _, _)
WAddC(a, b, i, c) ==
    IF i > Len(a) /\ i > Len(b)
    THEN IF c = 0 THEN <<>> ELSE <<c>>
    ELSE LET s == WLimb(a, i) + WLimb(b, i) + c
         IN  <<s % Base>> \o WAddC(a, b, i + 1, s \div Base)

WAdd(a, b) == WAddC(a, b, 1, 0)

RECURSIVE WSubB(_, _, _, _)
WSubB(a, b, i, br) ==
    IF i > Len(a) THEN <<>>
    ELSE LET s == a[i] - WLimb(b, i) - br
         IN  IF s < 0 THEN <<s + Base>> \o WSubB(a, b, i + 1, 1)
             ELSE <<s>> \o WSubB(a, b, i + 1, 0)

\* a - b for a >= b
WSub(a, b) == WNorm(WSubB(a, b, 1, 0))

RECURSIVE WCmpAt(_, _, _)
WCmpAt(a, b, i) ==
    IF i = 0 THEN 0
    ELSE IF a[i] < b[i] THEN -1
    ELSE IF a[i] > b[i] THEN 1
    ELSE WCmpAt(a, b, i - 1)

\* -1, 0, 1 as a < b, a = b, a > b
WCmp(a, b) ==
    IF Len(a) < Len(b) THEN -1
    ELSE IF Len(a) > Len(b) THEN 1
    ELSE WCmpAt(a, b, Len(a))

WLess(a, b) == WCmp(a, b) < 0
WLeq(a, b) == WCmp(a, b) <= 0

RECURSIVE WMulC(_, _, _, _)
WMulC(a, k, i, c) ==
    IF i > Len(a) THEN W(c)
    ELSE LET s == a[i] * k + c
         IN  <<s % Base>> \o WMulC(a, k, i + 1, s \div Base)

\* a * k for a machine integer 0 <= k < 200000
WMulInt(a, k) == IF k = 0 THEN <<>> ELSE WMulC(a, k, 1, 0)

WShl(a) == IF a = <<>> THEN <<>> ELSE <<0>> \o a

RECURSIVE WMul(_, _)
WMul(a, b) ==
    IF b = <<>> THEN <<>>
    ELSE WAdd(WMulInt(a, b[1]), WShl(WMul(a, Tail(b))))

RECURSIVE WDivModInt(_, _)
\* <<a \div k, a % k>> for a machine integer 0 < k < 200000 (short division)
WDivModInt(a, k) ==
    IF a = <<>> THEN << <<>>, 0 >>
    ELSE Let(WDivModInt(Tail(a), k), LAMBDA hi :
         Let(hi[2] * Base + a[1], LAMBDA cur :
             << WNorm(<<cur \div k>> \o hi[1]), cur % k >>))

WDivInt(a, k) == WDivModInt(a, k)[1]
WModInt(a, k) == WDivModInt(a, k)[2]

RECURSIVE WDiv(_, _)
\* a \div d for a divisor d = k * Base^n with k < 200000, which every
\* MICROSECONDS_PER_* constant is: floor(floor(a / Base^n) / k)
WDiv(a, d) ==
    IF d[1] = 0
    THEN WDiv(IF a = <<>> THEN <<>> ELSE Tail(a), Tail(d))
    ELSE WDivInt(a, WInt(d))

TWO16 == 256 * 256
TWO32 == WMul(W(TWO16), W(TWO16))
TWO64 == WMul(TWO32, TWO32)

RECURSIVE WMod(_, _)
\* a modulo m by repeated subtraction (a is at most a few multiples of m)
WMod(a, m) ==
    Let(a, LAMBDA x : IF WLess(x, m) THEN x ELSE WMod(WSub(x, m), m))

(***************************************************************************)
(* uint32_t / int32_t / int16_t arithmetic.                                *)
(***************************************************************************)
U32(a) == WMod(a, TWO32)
U64(a) == WMod(a, TWO64)

\* conversion of an int32_t to uint32_t
ToU32(i) == IF i >= 0 THEN U32(W(i)) ELSE WSub(TWO32, W(-i))

U32Add(a, b) == U32(WAdd(a, b))
U32Sub(a, b) == U32(WSub(WAdd(a, TWO32), b))

\* C++ integer division truncates toward zero
TDiv(a, b) == IF a >= 0 THEN a \div b ELSE -((-a) \div b)

\* static_cast<short>: date::year stores a short
Wrap16(y) == ((y + 32768) % TWO16) - 32768

(***************************************************************************)
(* The Julian day codec.                                                   *)
(***************************************************************************)
\* Faulty variants of PostgresDate2J.  Without the Gregorian century rule
\* (every fourth year a leap year):
Date2JNoCenturyRule(year, month, day) ==
    LET m1 == IF month > 2 THEN month + 1 ELSE month + 13
        y1 == IF month > 2 THEN year + 4800 ELSE year + 4799
        j0 == ToU32(y1 * 365 - 32167)
        j1 == U32Add(j0, ToU32(TDiv(y1, 4)))
    IN  U32Add(j1, U32Add(W((7834 * m1) \div 256), W(day)))

\* with 32045, the constant of the astronomers' Julian day number formula, in
\* place of 32167:
Date2JOtherEpoch(year, month, day) ==
    LET m1      == IF month > 2 THEN month + 1 ELSE month + 13
        y1      == IF month > 2 THEN year + 4800 ELSE year + 4799
        century == ToU32(TDiv(y1, 100))
        j0      == ToU32(y1 * 365 - 32045)
        j1      == U32Add(j0, U32Add(U32Sub(ToU32(TDiv(y1, 4)), century),
                                     WDivInt(century, 4)))
    IN  U32Add(j1, U32Add(W((7834 * m1) \div 256), W(day)))

\* with months of thirty days:
Date2JThirtyDayMonths(year, month, day) ==
    LET m1      == IF month > 2 THEN month + 1 ELSE month + 13
        y1      == IF month > 2 THEN year + 4800 ELSE year + 4799
        century == ToU32(TDiv(y1, 100))
        j0      == ToU32(y1 * 365 - 32167)
        j1      == U32Add(j0, U32Add(U32Sub(ToU32(TDiv(y1, 4)), century),
                                     WDivInt(century, 4)))
    IN  U32Add(j1, U32Add(W(30 * m1), W(day)))

\* uint32_t PostgresDate2J(int32_t year, uint32_t month, uint32_t day)
PostgresDate2J(year, month, day) ==
    LET m1      == IF month > 2 THEN month + 1 ELSE month + 13
        y1      == IF month > 2 THEN year + 4800 ELSE year + 4799
        century == ToU32(TDiv(y1, 100))
        j0      == ToU32(y1 * 365 - 32167)
        j1      == U32Add(j0, U32Add(U32Sub(ToU32(TDiv(y1, 4)), century),
                                     WDivInt(century, 4)))
        j2      == U32Add(j1, U32Add(W((7834 * m1) \div 256), W(day)))
    IN  j2

\* A faulty variant of PostgresJ2Date: without the correction for the
\* centuries that are no leap years.
J2DateNoCenturyRule(julian_days) ==
    Let(U32Add(U32Add(julian_days, W(32044)), W(60)), LAMBDA j1 :
    Let(WDivModInt(j1, 1461), LAMBDA qr :
        LET quad1 == WInt(qr[1])
            j2    == qr[2]
            y0    == (j2 * 4) \div 1461
            j3    == (IF y0 # 0 THEN (j2 + 305) % 365 ELSE (j2 + 306) % 366) + 123
            quad2 == (j3 * 2141) \div 65536
        IN  <<Wrap16(y0 + quad1 * 4 - 4800), ((quad2 + 10) % 12) + 1,
              j3 - (7834 * quad2) \div 256>>))

\* date::year_month_day PostgresJ2Date(uint32_t julian_days); the result is
\* <<year, month, day>>
PostgresJ2Date(julian_days) ==
    Let(U32Add(julian_days, W(32044)), LAMBDA j0 :
    Let(WInt(WDivInt(j0, 146097)), LAMBDA quad0 :
    Let(WInt(U32Sub(j0, WMulInt(W(quad0), 146097))) * 4 + 3, LAMBDA extra :
    Let(U32Add(j0, W(60 + quad0 * 3 + extra \div 146097)), LAMBDA j1 :
    Let(WDivModInt(j1, 1461), LAMBDA qr :
        LET quad1 == WInt(qr[1])
            j2    == qr[2]
            y0    == (j2 * 4) \div 1461
            j3    == (IF y0 # 0 THEN (j2 + 305) % 365 ELSE (j2 + 306) % 366) + 123
            y1    == y0 + quad1 * 4
            quad2 == (j3 * 2141) \div 65536
            year  == y1 - 4800
            month == ((quad2 + 10) % 12) + 1
            day   == j3 - (7834 * quad2) \div 256
        IN  <<Wrap16(year), month, day>>)))))

\* date_t DateFromYMD(date::year_month_day ymd)
DateFromYMD(ymd) == Let(ymd, LAMBDA v : PostgresDate2J(v[1], v[2], v[3]))

\* date::year_month_day YMDFromDate(date_t date)
YMDFromDate(date) == PostgresJ2Date(date)

(***************************************************************************)
(* The Julian timestamp codec.                                             *)
(***************************************************************************)
MICROSECONDS_PER_SECOND == W(1000 * 1000)
MICROSECONDS_PER_MINUTE == WMulInt(MICROSECONDS_PER_SECOND, 60)
MICROSECONDS_PER_HOUR == WMulInt(MICROSECONDS_PER_MINUTE, 60)
MICROSECONDS_PER_DAY == WMulInt(MICROSECONDS_PER_HOUR, 24)

\* A faulty variant of TimestampFromDate: the microseconds of an hour in
\* place of those of a day.
TimestampFromDateHours(date) == U64(WMul(date, MICROSECONDS_PER_HOUR))

\* timestamp_t TimestampFromDate(date_t date): uint32_t * uint64_t
TimestampFromDate(date) == U64(WMul(date, MICROSECONDS_PER_DAY))

\* date_t DateFromTimestamp(timestamp_t timestamp)
DateFromTimestamp(timestamp) == U32(WDiv(timestamp, MICROSECONDS_PER_DAY))

\* uint64_t ExtractJulianMicroseconds(timestamp_t timestamp)
ExtractJulianMicroseconds(timestamp) == timestamp

\* A faulty variant of TimestampFromHMSu: the minutes scaled as hours.
TimestampFromHMSuMinuteAsHour(year, month, day, hour, minute, sec, usec) ==
    LET ymd == <<Wrap16(year), month % 256, day % 256>>
        t0  == TimestampFromDate(DateFromYMD(ymd))
        t1  == U64(WAdd(t0, U64(WMulInt(MICROSECONDS_PER_HOUR, hour))))
        t2  == U64(WAdd(t1, U64(WMulInt(MICROSECONDS_PER_HOUR, minute))))
        t3  == U64(WAdd(t2, U64(WMulInt(MICROSECONDS_PER_SECOND, sec))))
    IN  U64(WAdd(t3, usec))

\* timestamp_t TimestampFromHMSu(int32_t year, uint32_t month, uint32_t day,
\*     uint8_t hour, uint8_t minute, uint8_t sec, uint64_t usec); usec is wide.
\* date::year holds a short, date::month and date::day an unsigned char.
TimestampFromHMSu(year, month, day, hour, minute, sec, usec) ==
    LET ymd == <<Wrap16(year), month % 256, day % 256>>
        t0  == TimestampFromDate(DateFromYMD(ymd))
        t1  == U64(WAdd(t0, U64(WMulInt(MICROSECONDS_PER_HOUR, hour))))
        t2  == U64(WAdd(t1, U64(WMulInt(MICROSECONDS_PER_MINUTE, minute))))
        t3  == U64(WAdd(t2, U64(WMulInt(MICROSECONDS_PER_SECOND, sec))))
    IN  U64(WAdd(t3, usec))

(***************************************************************************)
(* date.h: the civil calendar (date::year_month_day, date::sys_days).      *)
(***************************************************************************)
IsLeap(y) == y % 4 = 0 /\ (y % 100 # 0 \/ y % 400 = 0)

LastDayOfMonth(y, m) ==
    IF m = 2 THEN (IF IsLeap(y) THEN 29 ELSE 28)
    ELSE IF m \in {4, 6, 9, 11} THEN 30 ELSE 31

\* year_month_day::ok()
YmdOk(ymd) ==
    Let(ymd, LAMBDA v :
        /\ v[1] # -32768
        /\ v[2] \in 1..12
        /\ v[3] \in 1..LastDayOfMonth(v[1], v[2]))

\* year_month_day::to_days(): days since 1970-01-01
DaysFromCivil(ymd) ==
    Let(ymd, LAMBDA v :
        LET y   == v[1] - (IF v[2] <= 2 THEN 1 ELSE 0)
            m   == v[2]
            d   == v[3]
            era == TDiv(IF y >= 0 THEN y ELSE y - 399, 400)
            yoe == y - era * 400
            doy == (153 * (IF m > 2 THEN m - 3 ELSE m + 9) + 2) \div 5 + d - 1
            doe == yoe * 365 + yoe \div 4 - yoe \div 100 + doy
        IN  era * 146097 + doe - 719468)

\* year_month_day::from_days(days)
CivilFromDays(dp) ==
    LET z   == dp + 719468
        era == TDiv(IF z >= 0 THEN z ELSE z - 146096, 146097)
        doe == z - era * 146097
        yoe == (doe - doe \div 1460 + doe \div 36524 - doe \div 146096) \div 365
        y   == yoe + era * 400
        doy == doe - (365 * yoe + yoe \div 4 - yoe \div 100)
        mp  == (5 * doy + 2) \div 153
        d   == doy - (153 * mp + 2) \div 5 + 1
        m   == IF mp < 10 THEN mp + 3 ELSE mp - 9
    IN  <<Wrap16(y + (IF m <= 2 THEN 1 ELSE 0)), m, d>>

(***************************************************************************)
(* std::chrono::microseconds (int64_t) as <<sign, magnitude>>, sign 1/-1.  *)
(***************************************************************************)
SNorm(s) == Let(s, LAMBDA x : IF x[2] = <<>> THEN <<1, <<>> >> ELSE x)

SAdd(a, b) ==
    Let(a, LAMBDA x : Let(b, LAMBDA y :
        IF x[1] = y[1] THEN <<x[1], WAdd(x[2], y[2])>>
        ELSE IF WLess(x[2], y[2]) THEN SNorm(<<y[1], WSub(y[2], x[2])>>)
        ELSE SNorm(<<x[1], WSub(x[2], y[2])>>)))

SNeg(a) == SNorm(<<-a[1], a[2]>>)

\* a machine integer count of units of u microseconds, as microseconds
SOf(i, u) == SNorm(<<IF i < 0 THEN -1 ELSE 1, WMul(W(IF i < 0 THEN -i ELSE i), u)>>)

\* date::floor<date::days>(tp): duration_cast truncates, then one less when
\* the truncated value is later than tp
FloorDays(tp) ==
    Let(WInt(WDiv(tp[2], MICROSECONDS_PER_DAY)), LAMBDA q :
        IF tp[1] < 0 /\ WMul(W(q), MICROSECONDS_PER_DAY) # tp[2] THEN -q - 1
        ELSE IF tp[1] < 0 THEN -q ELSE q)

\* date::time_of_day<microseconds>(d) for d >= 0: <<hours, minutes, seconds,
\* subseconds>> as counts
TimeOfDay(d) ==
    Let(WDiv(d, MICROSECONDS_PER_HOUR), LAMBDA h :
    Let(WSub(d, WMul(h, MICROSECONDS_PER_HOUR)), LAMBDA r1 :
    Let(WDiv(r1, MICROSECONDS_PER_MINUTE), LAMBDA m :
    Let(WSub(r1, WMul(m, MICROSECONDS_PER_MINUTE)), LAMBDA r2 :
    Let(WDiv(r2, MICROSECONDS_PER_SECOND), LAMBDA s :
        <<h, m, s, WSub(r2, WMul(s, MICROSECONDS_PER_SECOND))>>)))))

(***************************************************************************)
(* Text: sequences of one-character strings.                               *)
(***************************************************************************)
DigitChars == <<"0", "1", "2", "3", "4", "5", "6", "7", "8", "9">>

IsDigit(c) == \E i \in 1..10 : DigitChars[i] = c

DigitVal(c) == (CHOOSE i \in 1..10 : DigitChars[i] = c) - 1

RECURSIVE Dec(_)
\* the decimal digits of n >= 0
Dec(n) == IF n < 10 THEN <<DigitChars[n + 1]>>
          ELSE Dec(n \div 10) \o <<DigitChars[(n % 10) + 1]>>

RECURSIVE ZeroPad(_, _)
\* os.fill('0'); os.width(w)
ZeroPad(t, w) == IF Len(t) >= w THEN t ELSE ZeroPad(<<"0">> \o t, w)

RECURSIVE Pow10(_)
Pow10(n) == IF n = 0 THEN 1 ELSE 10 * Pow10(n - 1)

(***************************************************************************)
(* date.h: streaming of year_month_day and of sys_time<microseconds>.      *)
(***************************************************************************)
\* operator<<(os, year): width 4, zero filled, a sign before the digits
StreamYear(y) ==
    IF y < 0 THEN <<"-">> \o ZeroPad(Dec(-y), 4) ELSE ZeroPad(Dec(y), 4)

\* operator<<(os, year_month_day): YYYY-MM-DD
StreamYMD(ymd) ==
    Let(ymd, LAMBDA v :
        StreamYear(v[1]) \o <<"-">> \o ZeroPad(Dec(v[2]), 2)
                         \o <<"-">> \o ZeroPad(Dec(v[3]), 2))

\* operator<<(os, hh_mm_ss<microseconds>): HH:MM:SS.ffffff
StreamTOD(tod) ==
    Let(tod, LAMBDA t :
        ZeroPad(Dec(WInt(t[1])), 2) \o <<":">> \o ZeroPad(Dec(WInt(t[2])), 2)
            \o <<":">> \o ZeroPad(Dec(WInt(t[3])), 2)
            \o <<".">> \o ZeroPad(Dec(WInt(t[4])), 6))

\* operator<<(os, sys_time<microseconds>): the day of floor<days>(tp), a
\* space, the time of day
StreamSysTime(tp) ==
    Let(FloorDays(tp), LAMBDA dp :
        StreamYMD(CivilFromDays(dp)) \o <<" ">>
            \o StreamTOD(TimeOfDay(SAdd(tp, SNeg(SOf(dp, MICROSECONDS_PER_DAY)))[2])))

(***************************************************************************)
(* The text formatter.                                                     *)
(***************************************************************************)
\* std::string FormatDate(const date_t date)
FormatDate(date) == StreamYMD(YMDFromDate(date))

\* A faulty variant of FormatTimestamp: the text ends at the seconds.
FormatTimestampSeconds(timestamp) ==
    Let(DateFromTimestamp(timestamp), LAMBDA date :
    Let(U64(WSub(WAdd(timestamp, TWO64), U64(WMul(date, MICROSECONDS_PER_DAY)))),
        LAMBDA rem :
    Let(StreamSysTime(SAdd(SOf(DaysFromCivil(YMDFromDate(date)),
                               MICROSECONDS_PER_DAY), <<1, rem>>)),
        LAMBDA text : SubSeq(text, 1, Len(text) - 7))))

\* std::string FormatTimestamp(const timestamp_t timestamp)
FormatTimestamp(timestamp) ==
    Let(DateFromTimestamp(timestamp), LAMBDA date :
    Let(YMDFromDate(date), LAMBDA ymd :
    Let(U64(WSub(WAdd(timestamp, TWO64), U64(WMul(date, MICROSECONDS_PER_DAY)))),
        LAMBDA rem :
        StreamSysTime(SAdd(SOf(DaysFromCivil(ymd), MICROSECONDS_PER_DAY),
                           <<1, rem>>)))))

(***************************************************************************)
(* date.h: date::parse / from_stream, for the conversion specifiers and    *)
(* literals the formats of ParseDate and ParseTimestamp use.               *)
(***************************************************************************)
Peek(str, pos) == IF pos > Len(str) THEN "EOF" ELSE str[pos]

RECURSIVE ReadDigits(_, _, _, _, _)
\* <<digits read, value, next position>>: at most M digits
ReadDigits(str, pos, M, count, x) ==
    IF count = M \/ ~IsDigit(Peek(str, pos)) THEN <<count, x, pos>>
    ELSE ReadDigits(str, pos + 1, M, count + 1, 10 * x + DigitVal(str[pos]))

\* detail::read_unsigned(is, m, M): between m and M digits
ReadUnsigned(str, pos, m, M) ==
    Let(ReadDigits(str, pos, M, 0, 0), LAMBDA r :
        [ok |-> r[1] >= m, val |-> r[2], pos |-> r[3]])

\* detail::read_signed(is, m, M): an optional sign, then read_unsigned
ReadSigned(str, pos, m, M) ==
    LET c == Peek(str, pos)
    IN  IF IsDigit(c) \/ c = "-" \/ c = "+"
        THEN Let(ReadUnsigned(str, IF IsDigit(c) THEN pos ELSE pos + 1,
                              IF m > 1 THEN m ELSE 1, M), LAMBDA r :
                 [ok |-> r.ok, val |-> IF c = "-" THEN -r.val ELSE r.val,
                  pos |-> r.pos])
        ELSE [ok |-> m = 0, val |-> 0, pos |-> pos]

RECURSIVE ReadFloat(_, _, _, _, _, _, _, _)
\* the loop of detail::read_long_double: <<count, i, f, fcount, position>>
ReadFloat(str, pos, M, count, i, f, fcount, frac) ==
    LET c == Peek(str, pos)
    IN  IF count = M \/ c = "EOF" THEN <<count, i, f, fcount, pos>>
        ELSE IF c = "." /\ ~frac
        THEN ReadFloat(str, pos + 1, M, count + 1, i, f, fcount, TRUE)
        ELSE IF ~IsDigit(c) THEN <<count, i, f, fcount, pos>>
        ELSE IF frac
        THEN ReadFloat(str, pos + 1, M, count + 1, i, 10 * f + DigitVal(c),
                       fcount + 1, frac)
        ELSE ReadFloat(str, pos + 1, M, count + 1, 10 * i + DigitVal(c), f,
                       fcount, frac)

\* round_i<microseconds>(duration<long double>{i + f / 10^fcount}), wide
RoundMicros(i, f, fcount) ==
    LET us == IF fcount <= 6 THEN f * Pow10(6 - fcount)
              ELSE LET p == Pow10(fcount - 6)
                       q == f \div p
                       r == f % p
                   IN  IF 2 * r > p \/ (2 * r = p /\ q % 2 = 1) THEN q + 1 ELSE q
    IN  WAdd(WMul(W(i), MICROSECONDS_PER_SECOND), W(us))

\* detail::read_long_double(is, m, M), as the microseconds it is rounded to
ReadSeconds(str, pos, m, M) ==
    Let(ReadFloat(str, pos, M, 0, 0, 0, 0, FALSE), LAMBDA r :
        [ok |-> r[1] >= m, val |-> RoundMicros(r[2], r[3], r[4]), pos |-> r[5]])

\* detail::read(is, CharT): the next character must be c
ReadChar(str, pos, c) ==
    [ok |-> Peek(str, pos) = c, val |-> 0, pos |-> pos + 1]

RECURSIVE SkipWs(_, _)
\* std::ws
SkipWs(str, pos) == IF Peek(str, pos) = " " THEN SkipWs(str, pos + 1) ELSE pos

\* the parse state before the first format character: nothing read yet, the
\* time of day and the offset zero
ParseStart ==
    [ok |-> TRUE, pos |-> 1, Y |-> 0, m |-> 0, d |-> 0,
     H |-> 0, M |-> 0, s |-> <<>>, off |-> 0]

Fail(st) == [st EXCEPT !.ok = FALSE]

\* %F: %Y-%m-%d, the year of at most 4 digits
ParseF(str, st) ==
    Let(ReadSigned(str, st.pos, 1, 4), LAMBDA y :
    Let(ReadChar(str, y.pos, "-"), LAMBDA c1 :
    Let(ReadUnsigned(str, c1.pos, 1, 2), LAMBDA m :
    Let(ReadChar(str, m.pos, "-"), LAMBDA c2 :
    Let(ReadUnsigned(str, c2.pos, 1, 2), LAMBDA d :
        IF y.ok /\ c1.ok /\ m.ok /\ c2.ok /\ d.ok
        THEN [st EXCEPT !.pos = d.pos, !.Y = y.val, !.m = m.val, !.d = d.val]
        ELSE Fail(st))))))

\* %T: %H:%M:%S, the seconds of at most 9 characters (SS.ffffff)
ParseT(str, st) ==
    Let(ReadUnsigned(str, st.pos, 1, 2), LAMBDA h :
    Let(ReadChar(str, h.pos, ":"), LAMBDA c1 :
    Let(ReadUnsigned(str, c1.pos, 1, 2), LAMBDA m :
    Let(ReadChar(str, m.pos, ":"), LAMBDA c2 :
    Let(ReadSeconds(str, c2.pos, 1, 9), LAMBDA s :
        IF h.ok /\ c1.ok /\ m.ok /\ c2.ok /\ s.ok
        THEN [st EXCEPT !.pos = s.pos, !.H = h.val, !.M = m.val, !.s = s.val]
        ELSE Fail(st))))))

\* %z: [+|-]hh[mm], as minutes
ParseZ(str, st) ==
    Let(ReadSigned(str, st.pos, 2, 2), LAMBDA h :
    Let(ReadUnsigned(str, h.pos, 2, 2), LAMBDA m :
        LET neg == Peek(str, st.pos) = "-"
            ah  == IF h.val < 0 THEN -h.val ELSE h.val
            mm  == IsDigit(Peek(str, h.pos))
            off == IF mm THEN ah * 60 + m.val ELSE ah * 60
        IN  IF h.ok /\ (mm => m.ok)
            THEN [st EXCEPT !.pos = IF mm THEN m.pos ELSE h.pos,
                            !.off = IF neg THEN -off ELSE off]
            ELSE Fail(st)))

\* one element of a format: a conversion specifier, white space (which
\* matches zero or more white space characters) or a literal character
ParseItem(item, str, st) ==
    IF item = "%F" THEN ParseF(str, st)
    ELSE IF item = "%T" THEN ParseT(str, st)
    ELSE IF item = "%z" THEN ParseZ(str, st)
    ELSE IF item = " " THEN [st EXCEPT !.pos = SkipWs(str, st.pos)]
    ELSE IF Peek(str, st.pos) = item THEN [st EXCEPT !.pos = st.pos + 1]
    ELSE Fail(st)

RECURSIVE ParseItems(_, _, _, _)
ParseItems(fmt, k, str, st) ==
    IF k > Len(fmt) \/ ~st.ok THEN st
    ELSE Let(ParseItem(fmt[k], str, st), LAMBDA nx : ParseItems(fmt, k + 1, str, nx))

\* hh_mm_ss::in_conventional_range()
InConventionalRange(st) ==
    /\ st.H < 24
    /\ st.M < 60
    /\ WLess(st.s, WMulInt(MICROSECONDS_PER_SECOND, 60))

\* from_stream(is, fmt, sys_time<microseconds>&): fails unless the fields
\* are a valid date and a conventional time of day; then
\* tp = sys_days(ymd) - offset + time of day
FromStream(fmt, str) ==
    Let(ParseItems(fmt, 1, str, ParseStart), LAMBDA st :
        LET ymd == <<st.Y, st.m, st.d>>
            tod == WAdd(WAdd(WMulInt(MICROSECONDS_PER_HOUR, st.H),
                             WMulInt(MICROSECONDS_PER_MINUTE, st.M)), st.s)
        IN  IF st.ok /\ YmdOk(ymd) /\ InConventionalRange(st)
            THEN [ok |-> TRUE,
                  tp |-> SAdd(SAdd(SOf(DaysFromCivil(ymd), MICROSECONDS_PER_DAY),
                                   SOf(-st.off, MICROSECONDS_PER_MINUTE)),
                              <<1, tod>>)]
            ELSE [ok |-> FALSE, tp |-> <<1, <<>> >>])

(***************************************************************************)
(* The text parser.                                                        *)
(***************************************************************************)
\* bool Parse(fmt, str, tp): true unless the stream failed; tp is written
\* only on success
Parse(fmt, str) == FromStream(fmt, str)

\* the formats of ParseDate, in the order tried
DateFormats == << <<"%F">> >>

\* the formats of ParseTimestamp, in the order tried
TimestampFormats ==
    << <<"%F", " ", "%T", "%z">>,
       <<"%F", " ", "%T", "Z">>,
       <<"%F", " ", "%T">>,
       <<"%F", "T", "%T", "%z">>,
       <<"%F", "T", "%T", "Z">>,
       <<"%F", "T", "%T">>,
       <<"%F">> >>

RECURSIVE TryFormatsLastWins(_, _, _)
\* A faulty variant of TryFormats, parse_ok |= Parse(fmt, str, &tp): every
\* format is tried and the last one that matches leaves its instant in tp.
TryFormatsLastWins(fmts, k, str) ==
    IF k > Len(fmts)
    THEN [ok |-> FALSE, tp |-> <<1, <<>> >>, fmt |-> 0, tried |-> Len(fmts)]
    ELSE Let(Parse(fmts[k], str), LAMBDA r :
         Let(TryFormatsLastWins(fmts, k + 1, str), LAMBDA later :
             IF later.ok \/ ~r.ok THEN later
             ELSE [ok |-> TRUE, tp |-> r.tp, fmt |-> k, tried |-> Len(fmts)]))

RECURSIVE TryFormats(_, _, _)
\* parse_ok = parse_ok || Parse(fmt, str, &tp), format after format: the
\* first success ends the evaluation.  fmt is the format that matched (0:
\* none) and tried the number of Parse calls made.
TryFormats(fmts, k, str) ==
    IF k > Len(fmts)
    THEN [ok |-> FALSE, tp |-> <<1, <<>> >>, fmt |-> 0, tried |-> Len(fmts)]
    ELSE Let(Parse(fmts[k], str), LAMBDA r :
             IF r.ok THEN [ok |-> TRUE, tp |-> r.tp, fmt |-> k, tried |-> k]
             ELSE TryFormats(fmts, k + 1, str))

\* A faulty variant of ParseDate: no return on !parse_ok, the date of the
\* untouched tp is paired with the flag.
ParseDateNoEarlyReturn(str) ==
    Let(TryFormats(DateFormats, 1, str), LAMBDA p :
        [ok |-> p.ok, val |-> DateFromYMD(CivilFromDays(FloorDays(p.tp))),
         fmt |-> p.fmt, tried |-> p.tried])

\* std::pair<bool, date_t> ParseDate(const std::string &str)
ParseDate(str) ==
    Let(TryFormats(DateFormats, 1, str), LAMBDA p :
        IF ~p.ok THEN [ok |-> FALSE, val |-> <<>>, fmt |-> 0, tried |-> p.tried]
        ELSE [ok |-> TRUE,
              val |-> DateFromYMD(CivilFromDays(FloorDays(p.tp))),
              fmt |-> p.fmt, tried |-> p.tried])

\* A faulty variant of JulianTimestamp: m_us is left out of the sum.
JulianTimestampNoMinutes(tp) ==
    Let(FloorDays(tp), LAMBDA dp :
    Let(DateFromYMD(CivilFromDays(dp)), LAMBDA julian_date :
    Let(TimeOfDay(SAdd(tp, SNeg(SOf(dp, MICROSECONDS_PER_DAY)))[2]), LAMBDA td :
        U64(WAdd(U64(WAdd(U64(WAdd(U64(WMul(julian_date, MICROSECONDS_PER_DAY)),
                                   U64(WMul(td[1], MICROSECONDS_PER_HOUR)))),
                          U64(WMul(td[3], MICROSECONDS_PER_SECOND)))),
                 td[4])))))

\* ParseTimestamp, after a successful parse: the Julian microseconds of the
\* instant tp
JulianTimestamp(tp) ==
    Let(FloorDays(tp), LAMBDA dp :
    Let(DateFromYMD(CivilFromDays(dp)), LAMBDA julian_date :
    Let(TimeOfDay(SAdd(tp, SNeg(SOf(dp, MICROSECONDS_PER_DAY)))[2]), LAMBDA td :
        LET day_us == U64(WMul(julian_date, MICROSECONDS_PER_DAY))
            h_us == U64(WMul(td[1], MICROSECONDS_PER_HOUR))
            m_us == U64(WMul(td[2], MICROSECONDS_PER_MINUTE))
            s_us == U64(WMul(td[3], MICROSECONDS_PER_SECOND))
            remaining_us == td[4]
        IN  U64(WAdd(U64(WAdd(U64(WAdd(U64(WAdd(day_us, h_us)), m_us)), s_us)),
                     remaining_us)))))

\* std::pair<bool, timestamp_t> ParseTimestamp(const std::string &str)
ParseTimestamp(str) ==
    Let(TryFormats(TimestampFormats, 1, str), LAMBDA p :
        IF ~p.ok THEN [ok |-> FALSE, val |-> <<>>, fmt |-> 0, tried |-> p.tried]
        ELSE [ok |-> TRUE, val |-> JulianTimestamp(p.tp),
              fmt |-> p.fmt, tried |-> p.tried])

(***************************************************************************)
(* The inputs a caller draws from.                                         *)
(***************************************************************************)
\* years on each side of a pivot year
YearRadius == 0
\* calls in one chain: a fresh input and the calls fed from it
MaxChain == 3

\* years the calendar dates are drawn around: the first year of the Julian
\* day count, centuries that are and are not leap years, the last year of
\* four digits and the last year a date::year holds
PivotYears == {-4713, 1900, 2000, 2020, 2100, 9999, 32767}

Years ==
    {y \in UNION {(p - YearRadius)..(p + YearRadius) : p \in PivotYears} :
        y >= -4713 /\ y <= 32767}

\* dates before the first year above: the year before the Julian day count
\* starts, and the years around -4800, where the encoder's shifted year
\* turns negative
AncientDates ==
    {<<-4714, 12, 31>>, <<-4799, 1, 1>>, <<-4800, 3, 1>>, <<-4800, 2, 29>>,
     <<-4801, 3, 1>>, <<-5000, 1, 1>>, <<-32767, 1, 1>>}

\* every valid date::year_month_day of those years
CalendarDates ==
    {<<y, m, d>> : y \in Years, m \in 1..12, d \in 1..31} \cup AncientDates

ValidDates == {ymd \in CalendarDates : YmdOk(ymd)}

\* date_t values: day 0, the Unix and PostgreSQL epochs, the last days of
\* years 9999 and 32767 and the days after them, the last day whose
\* microseconds fit 64 bits and the day after it, 2^31 and 2^32 - 1
DaySamples ==
    {W(0), W(1), W(2440588), W(2451545), W(5373484), W(5373485), W(13689325),
     W(13689326), W(213503982), W(213503983), WMul(W(32768), W(TWO16)),
     WSub(TWO32, W(1))}

\* microseconds since midnight
RemSamples ==
    {W(0), W(1), W(999999), WMulInt(MICROSECONDS_PER_HOUR, 12),
     WSub(MICROSECONDS_PER_DAY, W(1))}

\* timestamp_t values: a time of day on one of the days, and 2^64 - 1
TsSamples ==
    {WAdd(WMul(j, MICROSECONDS_PER_DAY), r) :
        j \in {W(0), W(2440588), W(2451545), W(5373484), W(5373485),
               W(13689325), W(213503981)},
        r \in RemSamples}
    \cup {WSub(TWO64, W(1))}

\* arguments of TimestampFromHMSu: hour, minute and sec are uint8_t and usec
\* a uint64_t, none of them checked
HMSuSamples ==
    {<<ymd[1], ymd[2], ymd[3], h, mi, sec, us>> :
        ymd \in {<<2020, 1, 1>>, <<1969, 12, 31>>, <<-4713, 11, 24>>,
                 <<2000, 2, 29>>},
        h \in {0, 23, 24, 255}, mi \in {0, 59, 60}, sec \in {0, 59},
        us \in {W(0), W(999999), W(1000000)}}

\* text inputs, by their parts: a date, a separator (none: the date alone),
\* a time of day with the digits of its fraction, and a zone: none, Z or a
\* numeric offset <<sign, hh, mm>>
TextDates ==
    {<<2020, 1, 1>>, <<2020, 6, 15>>, <<1970, 1, 1>>, <<1969, 12, 31>>,
     <<2000, 2, 29>>, <<2100, 2, 29>>, <<-4713, 11, 24>>, <<9999, 12, 31>>}

TextTimes ==
    {<<0, 0, 0, <<>> >>, <<11, 11, 11, <<"1", "2", "3">> >>,
     <<23, 59, 59, <<"9", "9", "9", "9", "9", "9">> >>,
     <<23, 0, 0, <<>> >>, <<24, 0, 0, <<>> >>}

TextZones ==
    {<<"none">>, <<"Z">>, <<"+", 0, 0>>, <<"-", 5, 0>>, <<"+", 5, 30>>,
     <<"-", 0, 0>>, <<"+", 14, 0>>}

NoTime == <<0, 0, 0, <<>> >>

TextParts ==
    {[date |-> dt, sep |-> sp, time |-> tm, zone |-> z] :
        dt \in TextDates, sp \in {" ", "T"}, tm \in TextTimes, z \in TextZones}
    \cup {[date |-> dt, sep |-> "none", time |-> NoTime, zone |-> <<"none">>] :
            dt \in TextDates}

DateText(ymd) ==
    (IF ymd[1] < 0 THEN <<"-">> \o ZeroPad(Dec(-ymd[1]), 4)
     ELSE ZeroPad(Dec(ymd[1]), 4))
        \o <<"-">> \o ZeroPad(Dec(ymd[2]), 2) \o <<"-">> \o ZeroPad(Dec(ymd[3]), 2)

TimeText(tm) ==
    ZeroPad(Dec(tm[1]), 2) \o <<":">> \o ZeroPad(Dec(tm[2]), 2) \o <<":">>
        \o ZeroPad(Dec(tm[3]), 2)
        \o (IF tm[4] = <<>> THEN <<>> ELSE <<".">> \o tm[4])

ZoneText(z) ==
    IF z[1] = "none" THEN <<>>
    ELSE IF z[1] = "Z" THEN <<"Z">>
    ELSE <<z[1]>> \o ZeroPad(Dec(z[2]), 2) \o ZeroPad(Dec(z[3]), 2)

\* the text of its parts
TextOf(p) ==
    IF p.sep = "none" THEN DateText(p.date)
    ELSE DateText(p.date) \o <<p.sep>> \o TimeText(p.time) \o ZoneText(p.zone)

\* text that is no date
MalformedTexts ==
    {<<>>,
     <<"n", "o", "t", "-", "a", "-", "d", "a", "t", "e">>,
     <<"2", "0", "2", "0">>,
     <<"2", "0", "2", "0", "-", "1", "3", "-", "0", "1">>,
     <<"2", "0", "2", "0", "/", "0", "1", "/", "0", "1">>,
     <<" ", "2", "0", "2", "0", "-", "0", "1", "-", "0", "1">>}

NoParts == [date |-> <<0, 0, 0>>, sep |-> "none", time |-> NoTime, zone |-> <<"none">>]

(***************************************************************************)
(* The caller.  hist: the calls of the chain so far, each                   *)
(* [op, arg, ret, fmt, tried] (fmt and tried: the format that matched and  *)
(* the number of formats tried, for the parsers).  input: what the chain   *)
(* started from; for text built from parts, the parts.                     *)
(***************************************************************************)
VARIABLES hist, input

vars == <<hist, input>>

Call(op, arg, ret) == [op |-> op, arg |-> arg, ret |-> ret, fmt |-> 0, tried |-> 0]

ParseCall(op, arg, res) ==
    Let(res, LAMBDA r :
        [op |-> op, arg |-> arg, ret |-> <<r.ok, r.val>>, fmt |-> r.fmt,
         tried |-> r.tried])

Last == hist[Len(hist)]
Prev == hist[Len(hist) - 1]

\* the type of the value a call returned
RetType(c) ==
    IF c.op \in {"DateFromYMD", "DateFromTimestamp"} THEN "date"
    ELSE IF c.op = "YMDFromDate" THEN "ymd"
    ELSE IF c.op \in {"TimestampFromDate", "TimestampFromHMSu"} THEN "timestamp"
    ELSE IF c.op \in {"FormatDate", "FormatTimestamp"} THEN "text"
    ELSE IF c.op = "ParseDate" /\ c.ret[1] THEN "date"
    ELSE IF c.op = "ParseTimestamp" /\ c.ret[1] THEN "timestamp"
    ELSE "none"

\* the value a parser's pair or any other call hands on
RetValue(c) == IF c.op \in {"ParseDate", "ParseTimestamp"} THEN c.ret[2] ELSE c.ret

\* the last result can be fed to a call that takes a value of type ty
CanChain(ty) == Len(hist) > 0 /\ Len(hist) < MaxChain /\ RetType(Last) = ty

Init == hist = <<>> /\ input = [kind |-> "none", parts |-> NoParts]

\* each call starts a chain from a fresh argument or takes the last result
DoDateFromYMD ==
    \/ /\ hist = <<>>
       /\ \E ymd \in ValidDates :
             /\ hist' = <<Call("DateFromYMD", ymd, DateFromYMD(ymd))>>
             /\ input' = [kind |-> "ymd", parts |-> NoParts]
    \/ /\ CanChain("ymd")
       /\ \E ymd \in {RetValue(Last)} :
             /\ hist' = Append(hist, Call("DateFromYMD", ymd, DateFromYMD(ymd)))
             /\ UNCHANGED input

DoYMDFromDate ==
    \/ /\ hist = <<>>
       /\ \E j \in DaySamples :
             /\ hist' = <<Call("YMDFromDate", j, YMDFromDate(j))>>
             /\ input' = [kind |-> "date", parts |-> NoParts]
    \/ /\ CanChain("date")
       /\ \E j \in {RetValue(Last)} :
             /\ hist' = Append(hist, Call("YMDFromDate", j, YMDFromDate(j)))
             /\ UNCHANGED input

DoTimestampFromDate ==
    \/ /\ hist = <<>>
       /\ \E j \in DaySamples :
             /\ hist' = <<Call("TimestampFromDate", j, TimestampFromDate(j))>>
             /\ input' = [kind |-> "date", parts |-> NoParts]
    \/ /\ CanChain("date")
       /\ \E j \in {RetValue(Last)} :
             /\ hist' = Append(hist, Call("TimestampFromDate", j, TimestampFromDate(j)))
             /\ UNCHANGED input

DoDateFromTimestamp ==
    \/ /\ hist = <<>>
       /\ \E t \in TsSamples :
             /\ hist' = <<Call("DateFromTimestamp", t, DateFromTimestamp(t))>>
             /\ input' = [kind |-> "timestamp", parts |-> NoParts]
    \/ /\ CanChain("timestamp")
       /\ \E t \in {RetValue(Last)} :
             /\ hist' = Append(hist, Call("DateFromTimestamp", t, DateFromTimestamp(t)))
             /\ UNCHANGED input

DoTimestampFromHMSu ==
    /\ hist = <<>>
    /\ \E a \in HMSuSamples :
          /\ hist' = <<Call("TimestampFromHMSu", a, TimestampFromHMSu(a[1], a[2], a[3], a[4], a[5], a[6], a[7]))>>
          /\ input' = [kind |-> "hmsu", parts |-> NoParts]

DoFormatDate ==
    \/ /\ hist = <<>>
       /\ \E j \in DaySamples :
             /\ hist' = <<Call("FormatDate", j, FormatDate(j))>>
             /\ input' = [kind |-> "date", parts |-> NoParts]
    \/ /\ CanChain("date")
       /\ \E j \in {RetValue(Last)} :
             /\ hist' = Append(hist, Call("FormatDate", j, FormatDate(j)))
             /\ UNCHANGED input

DoFormatTimestamp ==
    \/ /\ hist = <<>>
       /\ \E t \in TsSamples :
             /\ hist' = <<Call("FormatTimestamp", t, FormatTimestamp(t))>>
             /\ input' = [kind |-> "timestamp", parts |-> NoParts]
    \/ /\ CanChain("timestamp")
       /\ \E t \in {RetValue(Last)} :
             /\ hist' = Append(hist, Call("FormatTimestamp", t, FormatTimestamp(t)))
             /\ UNCHANGED input

DoParseDate ==
    \/ /\ hist = <<>>
       /\ \E p \in TextParts : \E str \in {TextOf(p)} :
             /\ hist' = <<ParseCall("ParseDate", str, ParseDate(str))>>
             /\ input' = [kind |-> "parts", parts |-> p]
    \/ /\ hist = <<>>
       /\ \E str \in MalformedTexts :
             /\ hist' = <<ParseCall("ParseDate", str, ParseDate(str))>>
             /\ input' = [kind |-> "text", parts |-> NoParts]
    \/ /\ CanChain("text")
       /\ \E str \in {RetValue(Last)} :
             /\ hist' = Append(hist, ParseCall("ParseDate", str, ParseDate(str)))
             /\ UNCHANGED input

DoParseTimestamp ==
    \/ /\ hist = <<>>
       /\ \E p \in TextParts : \E str \in {TextOf(p)} :
             /\ hist' = <<ParseCall("ParseTimestamp", str, ParseTimestamp(str))>>
             /\ input' = [kind |-> "parts", parts |-> p]
    \/ /\ hist = <<>>
       /\ \E str \in MalformedTexts :
             /\ hist' = <<ParseCall("ParseTimestamp", str, ParseTimestamp(str))>>
             /\ input' = [kind |-> "text", parts |-> NoParts]
    \/ /\ CanChain("text")
       /\ \E str \in {RetValue(Last)} :
             /\ hist' = Append(hist, ParseCall("ParseTimestamp", str, ParseTimestamp(str)))
             /\ UNCHANGED input

Next ==
    \/ DoDateFromYMD
    \/ DoYMDFromDate
    \/ DoTimestampFromDate
    \/ DoDateFromTimestamp
    \/ DoTimestampFromHMSu
    \/ DoFormatDate
    \/ DoFormatTimestamp
    \/ DoParseDate
    \/ DoParseTimestamp

Spec == Init /\ [][Next]_vars


(***************************************************************************)
(* Dates, texts and values the properties speak of.                        *)
(***************************************************************************)
DateLess(a, b) ==
    \/ a[1] < b[1]
    \/ a[1] = b[1] /\ a[2] < b[2]
    \/ a[1] = b[1] /\ a[2] = b[2] /\ a[3] < b[3]

DateLeq(a, b) == a = b \/ DateLess(a, b)

\* the date of day 0 and the last date a date::year_month_day holds
FirstDate == <<-4713, 11, 24>>
LastDate == <<32767, 12, 31>>

\* a valid calendar date of the supported range: its day count neither
\* wraps below 0 nor leaves the years a date::year holds
Supported(d) == YmdOk(d) /\ DateLeq(FirstDate, d) /\ DateLeq(d, LastDate)

\* the calendar day after d
NextDay(d) ==
    IF d[3] < LastDayOfMonth(d[1], d[2]) THEN <<d[1], d[2], d[3] + 1>>
    ELSE IF d[2] < 12 THEN <<d[1], d[2] + 1, 1>>
    ELSE <<d[1] + 1, 1, 1>>

\* dates the order of the day counts is checked against
Landmarks ==
    {FirstDate, <<1900, 2, 28>>, <<1900, 3, 1>>, <<1970, 1, 1>>, <<2000, 2, 29>>,
     <<2000, 3, 1>>, <<2020, 6, 15>>, <<2100, 1, 1>>, <<9999, 12, 31>>, LastDate}

\* the largest day count whose microseconds fit 64 bits
LastWholeDay == W(213503982)

\* the first microsecond of 10000-01-01, the first year of five digits
YearTenThousand == TimestampFromDate(DateFromYMD(<<10000, 1, 1>>))

\* the grammar a text built from parts is the full form of
FormOf(p) ==
    IF p.sep = "none" THEN 7
    ELSE (IF p.sep = " " THEN 0 ELSE 3)
         + (IF p.zone[1] = "none" THEN 3 ELSE IF p.zone[1] = "Z" THEN 2 ELSE 1)

\* parts that name a date of the calendar and a time of the day
ValidParts(p) ==
    YmdOk(p.date) /\ p.time[1] <= 23 /\ p.time[2] <= 59 /\ p.time[3] <= 59

\* the same date and time of day with suffix Z behind separator sep
ZuluParts(p, sep) == [p EXCEPT !.sep = sep, !.zone = <<"Z">>]

\* the microseconds of the offset z = <<sign, hh, mm>>
OffsetMicros(z) ==
    WAdd(WMulInt(MICROSECONDS_PER_HOUR, z[2]), WMulInt(MICROSECONDS_PER_MINUTE, z[3]))

ExampleText ==
    <<"2", "0", "2", "0", "-", "0", "1", "-", "0", "1", "T", "1", "1", ":",
      "1", "1", ":", "1", "1", ".", "1", "2", "3", "-", "0", "5", "0", "0">>

ExampleDateText == <<"2", "0", "2", "0", "-", "0", "1", "-", "0", "1">>

NotADateText == <<"n", "o", "t", "-", "a", "-", "d", "a", "t", "e">>

EpochText == <<"2", "0", "0", "0", "-", "0", "1", "-", "0", "1">>

\* the formats a parser tries
FormatsOf(op) == IF op = "ParseDate" THEN DateFormats ELSE TimestampFormats

\* the instant the grammar that matched call c parsed
ParsedInstant(c) == Parse(FormatsOf(c.op)[c.fmt], c.arg).tp

\* the last two calls of the chain are op1 and op2, op2 fed from op1
Pair(op1, op2) == Len(hist) >= 2 /\ Prev.op = op1 /\ Last.op = op2

\* the chain is one call of op
Single(op) == Len(hist) = 1 /\ Last.op = op

\* t - j * MICROSECONDS_PER_DAY lies in 0 .. MICROSECONDS_PER_DAY - 1
RemainderInDay(t, j) ==
    /\ WLeq(WMul(j, MICROSECONDS_PER_DAY), t)
    /\ WLess(WSub(t, WMul(j, MICROSECONDS_PER_DAY)), MICROSECONDS_PER_DAY)

(***************************************************************************)
(* The properties.                                                         *)
(***************************************************************************)
\* C1: decoding the encoded date returns the date, for every valid calendar
\* date of the supported range: YMDFromDate(DateFromYMD(d)) = d.
ThmC1 ==
    (Pair("DateFromYMD", "YMDFromDate") /\ Supported(Prev.arg))
        => Last.ret = Prev.arg

\* C1 at a leap day of a year divisible by 400
WitC1 ==
    /\ Pair("DateFromYMD", "YMDFromDate")
    /\ Prev.arg = <<2000, 2, 29>>
    /\ Last.ret = <<2000, 2, 29>>

\* C2, as stated: DateFromTimestamp(TimestampFromDate(j)) = j for every
\* 32-bit day count j.
CexC2 == Pair("TimestampFromDate", "DateFromTimestamp") => Last.ret = Prev.arg

\* C2, amended: DateFromTimestamp(TimestampFromDate(j)) = j for every day
\* count j whose product j * MICROSECONDS_PER_DAY fits 64 bits, that is
\* j <= 213503982.
ThmC2 ==
    (Pair("TimestampFromDate", "DateFromTimestamp") /\ WLeq(Prev.arg, LastWholeDay))
        => Last.ret = Prev.arg

\* C2 at the largest such day count
WitC2 ==
    /\ Pair("TimestampFromDate", "DateFromTimestamp")
    /\ Prev.arg = LastWholeDay
    /\ Last.ret = LastWholeDay

\* C3: ParseTimestamp returns the result of the first of its seven grammars
\* that succeeds and tries none after it; a text that is the full form of
\* grammar k is parsed by grammar k; the example text is parsed by grammar 4
\* and its value differs from that of its date alone.
ThmC3 ==
    (Len(hist) >= 1 /\ Last.op = "ParseTimestamp") =>
        /\ Last.ret[1] =>
              /\ Last.fmt \in 1..Len(TimestampFormats)
              /\ Last.tried = Last.fmt
              /\ Parse(TimestampFormats[Last.fmt], Last.arg).ok
              /\ Last.ret[2] = JulianTimestamp(ParsedInstant(Last))
              /\ \A k \in 1..(Last.fmt - 1) :
                    ~Parse(TimestampFormats[k], Last.arg).ok
        /\ (Len(hist) = 1 /\ input.kind = "parts" /\ ValidParts(input.parts)) =>
              Last.ret[1] /\ Last.fmt = FormOf(input.parts)
        /\ Last.arg = ExampleText =>
              /\ Last.fmt = 4
              /\ Last.ret[1]
              /\ Last.ret[2] # ParseTimestamp(ExampleDateText).val

\* C3 at the example text: 2020-01-01 16:11:11.123
WitC3 ==
    /\ Single("ParseTimestamp")
    /\ Last.arg = ExampleText
    /\ Last.fmt = 4
    /\ Last.ret = <<TRUE, TimestampFromHMSu(2020, 1, 1, 16, 11, 11, W(123000))>>
    /\ ParseTimestamp(ExampleDateText).fmt = 7

\* C4, as stated: ParseTimestamp(FormatTimestamp(t)) = (true, t) for every
\* 64-bit t.
CexC4 == Pair("FormatTimestamp", "ParseTimestamp") => Last.ret = <<TRUE, Prev.arg>>

\* C4, amended: ParseTimestamp(FormatTimestamp(t)) = (true, t) for every t
\* before 10000-01-01 00:00:00, that is t < 5373485 * MICROSECONDS_PER_DAY.
ThmC4 ==
    (Pair("FormatTimestamp", "ParseTimestamp") /\ WLess(Prev.arg, YearTenThousand))
        => Last.ret = <<TRUE, Prev.arg>>

\* C4 at the last microsecond of 9999-12-31
WitC4 ==
    /\ Pair("FormatTimestamp", "ParseTimestamp")
    /\ Prev.arg = WSub(YearTenThousand, W(1))
    /\ Last.fmt = 3
    /\ Last.ret = <<TRUE, Prev.arg>>

\* the day count of the date call c encoded in its timestamp
EncodedDay(c) ==
    IF c.op = "TimestampFromDate" THEN c.arg
    ELSE IF c.op = "TimestampFromHMSu"
    THEN DateFromYMD(<<c.arg[1], c.arg[2], c.arg[3]>>)
    ELSE DateFromYMD(CivilFromDays(FloorDays(ParsedInstant(c))))

\* call c is an encoder that returned a timestamp
Encoded(c) ==
    \/ c.op \in {"TimestampFromDate", "TimestampFromHMSu"}
    \/ c.op = "ParseTimestamp" /\ c.ret[1]

\* the arguments of encoder call c are within its range
EncoderInRange(c) ==
    IF c.op = "TimestampFromDate" THEN WLeq(c.arg, LastWholeDay)
    ELSE IF c.op = "TimestampFromHMSu"
    THEN /\ Supported(<<c.arg[1], c.arg[2], c.arg[3]>>)
         /\ c.arg[4] <= 23 /\ c.arg[5] <= 59 /\ c.arg[6] <= 59
         /\ WLess(c.arg[7], MICROSECONDS_PER_SECOND)
    ELSE FloorDays(ParsedInstant(c)) >= DaysFromCivil(FirstDate)

\* C5, as stated: for every timestamp t an encoder produced, the remainder
\* over the encoded date's day count lies within a day and
\* DateFromTimestamp(t) is that day count.
CexC5 ==
    (Len(hist) >= 2 /\ Encoded(Prev) /\ Last.op = "DateFromTimestamp") =>
        /\ RemainderInDay(RetValue(Prev), EncodedDay(Prev))
        /\ Last.ret = EncodedDay(Prev)

\* C5, amended: the same for a timestamp t produced by TimestampFromDate(j)
\* with j <= 213503982, by TimestampFromHMSu with a valid date of the
\* supported range, hour <= 23, minute <= 59, second <= 59 and microsecond
\* <= 999999, or by a successful ParseTimestamp whose parsed instant is not
\* before -4713-11-24 00:00:00.
ThmC5 ==
    (/\ Len(hist) >= 2
     /\ Encoded(Prev)
     /\ Last.op = "DateFromTimestamp"
     /\ EncoderInRange(Prev)) =>
        /\ RemainderInDay(RetValue(Prev), EncodedDay(Prev))
        /\ Last.ret = EncodedDay(Prev)

\* C5 at an instant before 1970-01-01: 1970-01-01 00:00:00+0530 is encoded
\* on the day of 1969-12-31
WitC5 ==
    /\ Pair("ParseTimestamp", "DateFromTimestamp")
    /\ input.kind = "parts"
    /\ input.parts.date = <<1970, 1, 1>>
    /\ input.parts.time = NoTime
    /\ input.parts.zone = <<"+", 5, 30>>
    /\ Last.ret = DateFromYMD(<<1969, 12, 31>>)
    /\ Last.ret = EncodedDay(Prev)

ThmC7 ==
    (Len(hist) >= 1 /\ Last.op \in {"ParseDate", "ParseTimestamp"}) =>
        LET fmts    == FormatsOf(Last.op)
            matched == \E k \in 1..Len(fmts) : Parse(fmts[k], Last.arg).ok
        IN  /\ ~matched => Last.ret = <<FALSE, W(0)>>
            /\ Last.ret[1] => matched
            /\ (Last.op = "ParseDate" /\ Last.arg = NotADateText) =>
                  Last.ret = <<FALSE, W(0)>>
            /\ (Last.op = "ParseTimestamp" /\ Last.arg = <<>>) =>
                  Last.ret = <<FALSE, W(0)>>

\* C7 at ParseDate("not-a-date")
WitC7 ==
    /\ Single("ParseDate")
    /\ Last.arg = NotADateText
    /\ Last.ret = <<FALSE, W(0)>>
    /\ Last.tried = Len(DateFormats)

\* the dates no earlier than -4800-03-01
SinceShiftedYearZero(d) == YmdOk(d) /\ DateLeq(<<-4800, 3, 1>>, d)

ThmC9 ==
    Len(hist) >= 1 =>
        /\ (Last.op = "DateFromYMD" /\ Last.arg = <<2000, 1, 1>>)
              => Last.ret = W(2451545)
        /\ (Last.op = "YMDFromDate" /\ Last.arg = W(2451545))
              => Last.ret = <<2000, 1, 1>>
        /\ (Last.op = "FormatDate" /\ Last.arg = W(2451545))
              => Last.ret = EpochText

\* C9 along the chain: the date is encoded and its day count rendered
WitC9 ==
    /\ Pair("DateFromYMD", "FormatDate")
    /\ Prev.arg = <<2000, 1, 1>>
    /\ Prev.ret = W(2451545)
    /\ Last.ret = EpochText

\* C10: for a valid date d of the supported range the next calendar day
\* encodes to the day count of d plus 1, and the day counts are ordered as
\* the dates are.
ThmC10 ==
    (Len(hist) >= 1 /\ Last.op = "DateFromYMD" /\ Supported(Last.arg)) =>
        /\ Supported(NextDay(Last.arg)) =>
              DateFromYMD(NextDay(Last.arg)) = WAdd(Last.ret, W(1))
        /\ \A l \in Landmarks :
              /\ DateLess(Last.arg, l) => WLess(Last.ret, DateFromYMD(l))
              /\ DateLess(l, Last.arg) => WLess(DateFromYMD(l), Last.ret)

\* C10 at the end of February in a century year that is no leap year
WitC10 ==
    /\ Single("DateFromYMD")
    /\ Last.arg = <<2100, 2, 28>>
    /\ NextDay(Last.arg) = <<2100, 3, 1>>
    /\ DateFromYMD(<<2100, 3, 1>>) = WAdd(Last.ret, W(1))

====
